---- MODULE Spec2Model ----
(***************************************************************************)
(* Model of gdauth/globus.py: the token file kept in the home directory,   *)
(* refresh_globus_token and the remote operations built on it              *)
(* (check_folder_exists, create_dir, share).                               *)
(*                                                                         *)
(* Time is a discrete clock `now`; a token record is the pair              *)
(* (id, expires_at_seconds), the id standing for the access/refresh token  *)
(* pair the authorization server issued.                                   *)
(***************************************************************************)
EXTENDS Integers, Sequences, FiniteSets, TLC

\* Bounds of the model.
MaxTime == 3        \* the clock runs from 1 to MaxTime
MaxExp == 4         \* expires_at_seconds of a record is in 0..MaxExp
MaxIssued == 3      \* number of records the authorization server issues
MaxCalls == 2       \* top-level calls a process makes one after the other

Procs == {1, 2}

VARIABLES
    file,       \* content of ~/token.npy
    now,        \* the clock read by time.time()
    issued,     \* number of records issued by the authorization server
    frame       \* frame[p]: locals and position of process p

vars == <<file, now, issued, frame>>

----------------------------------------------------------------------------
\* Values

NoToken == [id |-> -1, exp |-> 0]

Err(t, c) == [type |-> t, code |-> c]
NoErr == Err("none", "")
Ok == Err("ok", "")
FileNotFoundError == Err("FileNotFoundError", "")
UnpicklingError == Err("UnpicklingError", "")
OSError == Err("OSError", "")
EOFError == Err("EOFError", "")
AuthAPIError == Err("AuthAPIError", "")
NetworkError == Err("NetworkError", "")
TransferAPIError(c) == Err("TransferAPIError", c)

NotFoundCode == "ClientError.NotFound"
TransferCodes == {NotFoundCode, "PermissionDenied", "ExternalError.MkdirFailed.Exists"}

\* What a call of the remote transfer/auth API can do.
RemoteOutcomes == {Ok, NetworkError} \cup {TransferAPIError(c) : c \in TransferCodes}

AbsentFile == [state |-> "absent", id |-> -1, exp |-> 0]
CorruptFile == [state |-> "corrupt", id |-> -1, exp |-> 0]

\* Faulty variant: a save that leaves a truncated file behind.
NpSave_Truncated(tok) == [state |-> "corrupt", id |-> -1, exp |-> 0]

\* np.save(globus_token_file, token_response): the whole file is rewritten.
NpSave(tok) == [state |-> "ok", id |-> tok.id, exp |-> tok.exp]

\* np.load(globus_token_file, allow_pickle='TRUE').item()
NpLoad(f) == [id |-> f.id, exp |-> f.exp]

\* The exception np.load raises on the file, NoErr when it loads.
NpLoadError(f) ==
    IF f.state = "absent" THEN FileNotFoundError
    ELSE IF f.state = "corrupt" THEN UnpicklingError
    ELSE NoErr

\* Faulty variant: a bare except around the load.
Caught_Any(e) == TRUE

\* except FileNotFoundError:
Caught(e) == e = FileNotFoundError

\* Faulty variant: every exchange hands back the same token pair.
ExchangeCode_Reissued(n, e) == [id |-> 1, exp |-> e]

\* client.oauth2_exchange_code_for_tokens(auth_code): the n-th record issued.
ExchangeCode(n, e) == [id |-> n, exp |-> e]

\* globus_token_life = expires_at_s - time.time()
TokenLife(tok, t) == tok.exp - t

\* Faulty variant: the record is replaced only once it is more than a second old.
NeedsReauth_Late(life) == life < -1

\* Faulty variant: the record is replaced a safety margin before it expires.
NeedsReauth_Margin(life) == life < 2

\* Faulty variant: the record is replaced on every call.
NeedsReauth_Always(life) == TRUE

\* if (globus_token_life < 0):
NeedsReauth(life) == life < 0

\* Faulty variant: an expired record is replaced without the console prompt.
AfterCheck_NoPrompt(life) == IF NeedsReauth(life) THEN "exchange2" ELSE "ret"

\* The branch of `if (globus_token_life < 0):`: the second interactive
\* block, or straight to `return token_response`.
AfterCheck(life) == IF NeedsReauth(life) THEN "prompt2" ELSE "ret"

\* The locals of refresh_globus_token, before its first statement.
ClearLocals(f) ==
    [f EXCEPT !.tok = NoToken, !.loaded = NoToken, !.loadErr = NoErr,
              !.tcheck = -1, !.life = 0, !.events = <<>>]

InitFrame ==
    [op |-> "none", pc |-> "idle", cont |-> "none", onraise |-> "none",
     tok |-> NoToken, loaded |-> NoToken, loadErr |-> NoErr,
     tcheck |-> -1, life |-> 0, events |-> <<>>, err |-> NoErr,
     remote |-> NoErr, result |-> "unset", ret |-> NoToken, calls |-> 0]

RefreshLabels == {"load", "prompt1", "exchange1", "save1", "check",
                  "prompt2", "exchange2", "save2", "ret", "raise"}

Set(p, f) == frame' = [frame EXCEPT ![p] = f]

\* An exception leaves refresh_globus_token.
Raise(f, e) == [f EXCEPT !.pc = "raise", !.err = e]

\* Entry of refresh_globus_token (directly or through create_clients); the
\* caller resumes at cont when it returns and at onraise when it raises.
EnterRefresh(f, cont, onraise) ==
    [ClearLocals(f) EXCEPT !.pc = "load", !.cont = cont, !.onraise = onraise,
                           !.err = NoErr, !.ret = NoToken]

----------------------------------------------------------------------------
Init ==
    /\ file \in {AbsentFile, CorruptFile}
                \cup {NpSave(ExchangeCode(0, e)) : e \in 0..MaxExp}
    /\ now = 1
    /\ issued = 0
    /\ frame = [p \in Procs |-> InitFrame]

\* Time passes.
Tick ==
    /\ now < MaxTime
    /\ now' = now + 1
    /\ UNCHANGED <<file, issued, frame>>

----------------------------------------------------------------------------
\* refresh_globus_token

CallRefresh(p) ==
    LET f == frame[p] IN
    /\ f.pc = "idle"
    /\ f.calls < MaxCalls
    /\ Set(p, EnterRefresh([f EXCEPT !.op = "refresh_globus_token",
                                     !.calls = @ + 1], "done", "raised"))
    /\ UNCHANGED <<file, now, issued>>

\* try: token_response = np.load(...).item()  except FileNotFoundError:
Load(p) ==
    LET f == frame[p]
        e == NpLoadError(file) IN
    /\ f.pc = "load"
    /\ IF e = NoErr
       THEN Set(p, [f EXCEPT !.tok = NpLoad(file), !.loaded = NpLoad(file),
                             !.pc = "check"])
       ELSE IF Caught(e)
       THEN Set(p, [f EXCEPT !.loadErr = e, !.pc = "prompt1"])
       ELSE Set(p, Raise([f EXCEPT !.loadErr = e], e))
    /\ UNCHANGED <<file, now, issued>>

\* log.warning('Please go to this URL ...'); auth_code = get_input(...)
DoPrompt(p, at, next) ==
    LET f == frame[p] IN
    /\ f.pc = at
    /\ \E typed \in BOOLEAN :
         IF typed
         THEN Set(p, [f EXCEPT !.events = Append(@, "prompt"), !.pc = next])
         ELSE Set(p, Raise(f, EOFError))
    /\ UNCHANGED <<file, now, issued>>

\* token_response = client.oauth2_exchange_code_for_tokens(auth_code)
DoExchange(p, at, next) ==
    LET f == frame[p] IN
    /\ f.pc = at
    /\ \/ /\ issued < MaxIssued
          /\ \E e \in 0..MaxExp :
               Set(p, [f EXCEPT !.tok = ExchangeCode(issued + 1, e),
                                !.events = Append(@, "exchange"),
                                !.pc = next])
          /\ issued' = issued + 1
       \/ /\ Set(p, Raise(f, AuthAPIError))
          /\ UNCHANGED issued
    /\ UNCHANGED <<file, now>>

\* np.save(globus_token_file, token_response)
DoSave(p, at, next) ==
    LET f == frame[p] IN
    /\ f.pc = at
    /\ \/ /\ file' = NpSave(f.tok)
          /\ Set(p, [f EXCEPT !.events = Append(@, "save"), !.pc = next])
       \/ /\ file' \in {file, CorruptFile}
          /\ Set(p, Raise(f, OSError))
    /\ UNCHANGED <<now, issued>>

Prompt1(p) == DoPrompt(p, "prompt1", "exchange1")
Exchange1(p) == DoExchange(p, "exchange1", "save1")
Save1(p) == DoSave(p, "save1", "check")

\* globus_token_life = expires_at_s - time.time(); if (globus_token_life < 0):
Check(p) ==
    LET f == frame[p]
        life == TokenLife(f.tok, now) IN
    /\ f.pc = "check"
    /\ Set(p, [f EXCEPT !.tcheck = now, !.life = life,
                        !.pc = AfterCheck(life)])
    /\ UNCHANGED <<file, now, issued>>

Prompt2(p) == DoPrompt(p, "prompt2", "exchange2")
Exchange2(p) == DoExchange(p, "exchange2", "save2")
Save2(p) == DoSave(p, "save2", "ret")

\* return token_response
Return(p) ==
    LET f == frame[p] IN
    /\ f.pc = "ret"
    /\ Set(p, [ClearLocals(f) EXCEPT
                   !.ret = f.tok, !.pc = f.cont,
                   !.result = IF f.cont = "done" THEN "token" ELSE @])
    /\ UNCHANGED <<file, now, issued>>

\* The exception reaches the caller's handler, or the caller's caller.
Propagate(p) ==
    LET f == frame[p] IN
    /\ f.pc = "raise"
    /\ Set(p, [ClearLocals(f) EXCEPT !.pc = f.onraise])
    /\ UNCHANGED <<file, now, issued>>

\* The top-level call is over; the process may call again.
Finish(p) ==
    LET f == frame[p] IN
    /\ f.pc \in {"done", "raised"}
    /\ Set(p, [InitFrame EXCEPT !.calls = f.calls])
    /\ UNCHANGED <<file, now, issued>>

----------------------------------------------------------------------------
\* check_folder_exists

\* Faulty variant: every transfer error is taken for a missing folder.
CheckFolderExists_AnyCode(o) ==
    IF o = Ok THEN [kind |-> "return", val |-> "True"]
    ELSE IF o.type = "TransferAPIError"
    THEN [kind |-> "return", val |-> "False"]
    ELSE [kind |-> "raise", val |-> "unset"]

\* try: tc.operation_ls(...); return True
\* except TransferAPIError as e: NotFound -> return False, else raise e
CheckFolderExists(o) ==
    IF o = Ok THEN [kind |-> "return", val |-> "True"]
    ELSE IF o.type = "TransferAPIError"
    THEN IF o.code = NotFoundCode
         THEN [kind |-> "return", val |-> "False"]
         ELSE [kind |-> "raise", val |-> "unset"]
    ELSE [kind |-> "raise", val |-> "unset"]

\* ac, tc = create_clients(app_uuid)
CallCheckFolderExists(p) ==
    LET f == frame[p] IN
    /\ f.pc = "idle"
    /\ f.calls < MaxCalls
    /\ Set(p, EnterRefresh([f EXCEPT !.op = "check_folder_exists",
                                     !.calls = @ + 1], "cfe_ls", "raised"))
    /\ UNCHANGED <<file, now, issued>>

CfeLs(p) ==
    LET f == frame[p] IN
    /\ f.pc = "cfe_ls"
    /\ \E o \in RemoteOutcomes :
         LET r == CheckFolderExists(o) IN
         IF r.kind = "return"
         THEN Set(p, [f EXCEPT !.remote = o, !.result = r.val, !.pc = "done"])
         ELSE Set(p, [f EXCEPT !.remote = o, !.err = o, !.pc = "raised"])
    /\ UNCHANGED <<file, now, issued>>

----------------------------------------------------------------------------
\* create_dir

\* ac, tc = create_clients(app_uuid)
CallCreateDir(p) ==
    LET f == frame[p] IN
    /\ f.pc = "idle"
    /\ f.calls < MaxCalls
    /\ Set(p, EnterRefresh([f EXCEPT !.op = "create_dir",
                                     !.calls = @ + 1], "cd_mkdir", "raised"))
    /\ UNCHANGED <<file, now, issued>>

\* try: response = tc.operation_mkdir(ep_uuid, path=dir_path), then in either
\* of the first two branches log.info(create_folder_link(...)), which calls
\* create_clients: inside the try after a success, inside the handler after
\* a TransferAPIError.
CdMkdir(p) ==
    LET f == frame[p] IN
    /\ f.pc = "cd_mkdir"
    /\ \E o \in RemoteOutcomes :
         IF o = Ok
         THEN Set(p, EnterRefresh([f EXCEPT !.remote = o],
                                  "cd_true", "cd_unknown"))
         ELSE IF o.type = "TransferAPIError"
         THEN Set(p, EnterRefresh([f EXCEPT !.remote = o],
                                  "cd_true", "raised"))
         ELSE Set(p, [f EXCEPT !.remote = o, !.pc = "cd_unknown"])
    /\ UNCHANGED <<file, now, issued>>

\* return True (after the try body, and in except TransferAPIError)
CdTrue(p) ==
    LET f == frame[p] IN
    /\ f.pc = "cd_true"
    /\ Set(p, [f EXCEPT !.result = "True", !.pc = "done"])
    /\ UNCHANGED <<file, now, issued>>

\* except: log.error('*** Unknow error'); return False
CdUnknown(p) ==
    LET f == frame[p] IN
    /\ f.pc = "cd_unknown"
    /\ Set(p, [f EXCEPT !.result = "False", !.err = NoErr, !.pc = "done"])
    /\ UNCHANGED <<file, now, issued>>

----------------------------------------------------------------------------
\* share

\* if check_folder_exists(directory, app_uuid, ep_uuid):  (its create_clients)
CallShare(p) ==
    LET f == frame[p] IN
    /\ f.pc = "idle"
    /\ f.calls < MaxCalls
    /\ Set(p, EnterRefresh([f EXCEPT !.op = "share",
                                     !.calls = @ + 1], "sh_ls", "raised"))
    /\ UNCHANGED <<file, now, issued>>

\* The listing of check_folder_exists; when the folder exists,
\* ac, tc = create_clients(app_uuid); otherwise the function logs and ends
\* without a return statement.
ShLs(p) ==
    LET f == frame[p] IN
    /\ f.pc = "sh_ls"
    /\ \E o \in RemoteOutcomes :
         LET r == CheckFolderExists(o) IN
         IF r.kind = "raise"
         THEN Set(p, [f EXCEPT !.err = o, !.pc = "raised"])
         ELSE IF r.val = "True"
         THEN Set(p, EnterRefresh(f, "sh_uid", "raised"))
         ELSE Set(p, [f EXCEPT !.result = "None", !.pc = "done"])
    /\ UNCHANGED <<file, now, issued>>

\* user_id = get_user_id(app_uuid, email): its create_clients
ShUid(p) ==
    LET f == frame[p] IN
    /\ f.pc = "sh_uid"
    /\ Set(p, EnterRefresh(f, "sh_identities", "raised"))
    /\ UNCHANGED <<file, now, issued>>

\* r = ac.get_identities(usernames=email, provision=True)
ShIdentities(p) ==
    LET f == frame[p] IN
    /\ f.pc = "sh_identities"
    /\ \E o \in {Ok, AuthAPIError, NetworkError} :
         IF o = Ok
         THEN Set(p, [f EXCEPT !.pc = "sh_acl"])
         ELSE Set(p, [f EXCEPT !.err = o, !.pc = "raised"])
    /\ UNCHANGED <<file, now, issued>>

\* try: response = tc.add_endpoint_acl_rule(ep_uuid, rule_data), then
\* log.info(create_folder_link(...)) inside the try;
\* except TransferAPIError: return False
ShAcl(p) ==
    LET f == frame[p] IN
    /\ f.pc = "sh_acl"
    /\ \E o \in RemoteOutcomes :
         IF o = Ok
         THEN Set(p, EnterRefresh([f EXCEPT !.remote = o],
                                  "sh_true", "sh_unknown"))
         ELSE IF o.type = "TransferAPIError"
         THEN Set(p, [f EXCEPT !.remote = o, !.result = "False",
                               !.pc = "done"])
         ELSE Set(p, [f EXCEPT !.remote = o, !.pc = "sh_unknown"])
    /\ UNCHANGED <<file, now, issued>>

\* return True
ShTrue(p) ==
    LET f == frame[p] IN
    /\ f.pc = "sh_true"
    /\ Set(p, [f EXCEPT !.result = "True", !.pc = "done"])
    /\ UNCHANGED <<file, now, issued>>

\* except: log.warning('... is already shared ...'); return False
ShUnknown(p) ==
    LET f == frame[p] IN
    /\ f.pc = "sh_unknown"
    /\ Set(p, [f EXCEPT !.result = "False", !.err = NoErr, !.pc = "done"])
    /\ UNCHANGED <<file, now, issued>>

----------------------------------------------------------------------------
\* The steps of refresh_globus_token itself.
RefreshStep(p) ==
    \/ Load(p)
    \/ Prompt1(p)
    \/ Exchange1(p)
    \/ Save1(p)
    \/ Check(p)
    \/ Prompt2(p)
    \/ Exchange2(p)
    \/ Save2(p)
    \/ Return(p)
    \/ Propagate(p)

\* One process calling the functions of the module one after the other.
Next ==
    \/ Tick
    \/ CallRefresh(1)
    \/ CallCheckFolderExists(1)
    \/ CallCreateDir(1)
    \/ CallShare(1)
    \/ RefreshStep(1)
    \/ CfeLs(1)
    \/ CdMkdir(1)
    \/ CdTrue(1)
    \/ CdUnknown(1)
    \/ ShLs(1)
    \/ ShUid(1)
    \/ ShIdentities(1)
    \/ ShAcl(1)
    \/ ShTrue(1)
    \/ ShUnknown(1)
    \/ Finish(1)

Spec == Init /\ [][Next]_vars

\* Two processes, each inside one call of refresh_globus_token, on the same
\* token file.
NextRace ==
    \/ Tick
    \/ \E p \in Procs : CallRefresh(p) \/ RefreshStep(p)

SpecRace == Init /\ [][NextRace]_vars
----------------------------------------------------------------------------
\* Properties

InRefresh(f) == f.pc \in RefreshLabels

\* The record np.load returned at the start of the call was read from the
\* file (the load did not raise).
Loaded(f) == f.loadErr = NoErr /\ f.loaded # NoToken

Saved(f) == Len(f.events) > 0 /\ f.events[Len(f.events)] = "save"

\* C1: whenever refresh_globus_token returns, the record it returns is valid:
\* its expires_at minus the time the call read is strictly greater than 0.
C1_ReturnedRecordValid ==
    \A p \in Procs :
        frame[p].pc = "ret" => frame[p].tok.exp - frame[p].tcheck > 0

\* C2: a call that loaded a record whose expires_at is in the past returns
\* only after the interactive exchange, with the newly obtained record, never
\* with the loaded one.
C2_ExpiredIsReplaced ==
    \A p \in Procs :
        LET f == frame[p] IN
        (InRefresh(f) /\ Loaded(f) /\ f.tcheck >= 0 /\ f.loaded.exp < f.tcheck)
            => /\ f.pc \in {"prompt2", "exchange2", "save2", "ret", "raise"}
               /\ f.pc = "ret" =>
                    /\ f.events = <<"prompt", "exchange", "save">>
                    /\ f.tok # f.loaded
                    /\ f.tok.id > f.loaded.id

C2_Witness ==
    \E p \in Procs :
        LET f == frame[p] IN
        /\ f.pc = "ret" /\ Loaded(f) /\ f.loaded.exp < f.tcheck
        /\ f.tok # f.loaded

\* C3: a call that loaded a record whose expires_at is in the future returns
\* exactly that record, with no prompt and no exchange.
C3_FreshIsReused ==
    \A p \in Procs :
        LET f == frame[p] IN
        (InRefresh(f) /\ Loaded(f) /\ f.tcheck >= 0 /\ f.loaded.exp > f.tcheck)
            => /\ f.pc = "ret"
               /\ f.tok = f.loaded
               /\ f.events = <<>>

C3_Witness ==
    \E p \in Procs :
        LET f == frame[p] IN
        /\ f.pc = "ret" /\ Loaded(f) /\ f.loaded.exp > f.tcheck
        /\ f.tok = f.loaded

\* C4: check_folder_exists returns True when the listing succeeds, False
\* exactly when it fails with the transfer error 'ClientError.NotFound', and
\* re-raises every other error of the listing.
C4_CheckFolderExists ==
    \A p \in Procs :
        LET f == frame[p] IN
        (f.op = "check_folder_exists" /\ f.remote # NoErr)
            => /\ f.remote = Ok => (f.pc = "done" /\ f.result = "True")
               /\ f.remote = TransferAPIError(NotFoundCode)
                    => (f.pc = "done" /\ f.result = "False")
               /\ f.remote \notin {Ok, TransferAPIError(NotFoundCode)}
                    => (f.pc = "raised" /\ f.err = f.remote
                        /\ f.result = "unset")
               /\ f.result = "False" => f.remote = TransferAPIError(NotFoundCode)

C4_Witness ==
    \E p \in Procs :
        LET f == frame[p] IN
        /\ f.op = "check_folder_exists"
        /\ f.remote = TransferAPIError("PermissionDenied")
        /\ f.pc = "raised"

\* C5: in refresh_globus_token only the absent file is handled (the call goes
\* on to the interactive exchange); every other failure of the load, of the
\* exchange or of the save ends the call with that error, and no record is
\* returned.
C5_OnlyMissingFileHandled ==
    \A p \in Procs :
        LET f == frame[p] IN
        /\ (InRefresh(f) /\ f.loadErr \notin {NoErr, FileNotFoundError})
              => (f.pc = "raise" /\ f.err = f.loadErr /\ f.events = <<>>)
        /\ (InRefresh(f) /\ f.loadErr = FileNotFoundError /\ f.events = <<>>)
              => f.pc \in {"prompt1", "raise"}
        /\ (InRefresh(f) /\ f.err # NoErr) => f.pc = "raise"
        /\ f.pc = "raise" => (f.err # NoErr /\ f.ret = NoToken)
        /\ f.pc = "ret" => f.err = NoErr
        /\ (f.op = "refresh_globus_token" /\ f.pc = "raised")
              => (f.err # NoErr /\ f.ret = NoToken /\ f.result = "unset")
        /\ (f.op = "refresh_globus_token" /\ f.pc = "done")
              => (f.err = NoErr /\ f.result = "token")

C5_Witness ==
    \E p \in Procs :
        LET f == frame[p] IN
        /\ f.op = "refresh_globus_token" /\ f.pc = "raised"
        /\ f.err = UnpicklingError

\* C6: every replacement of the persisted record is the save of a record that
\* the same call obtained from an authorization-code exchange, itself
\* preceded by the console prompt.
C6_ReplacementIsInteractive ==
    [][ (file' # file /\ file'.state = "ok") =>
          \E p \in Procs :
              LET f == frame[p]
                  n == Len(f.events) IN
              /\ f.pc \in {"save1", "save2"}
              /\ frame'[p].pc \in {"check", "ret"}
              /\ file' = NpSave(f.tok)
              /\ f.tok # f.loaded
              /\ n >= 2
              /\ f.events[n - 1] = "prompt"
              /\ f.events[n] = "exchange" ]_vars

C6_Witness ==
    \E p \in Procs :
        LET f == frame[p] IN
        /\ InRefresh(f) /\ Saved(f) /\ Loaded(f)
        /\ file = NpSave(f.tok)

\* C7: in create_dir and share the boolean returned is True if and only if
\* the remote operation (mkdir, adding the ACL rule) succeeded.
C7_SuccessFlag ==
    \A p \in Procs :
        LET f == frame[p] IN
        (f.op \in {"create_dir", "share"} /\ f.pc = "done")
            => (f.result = "True" <=> f.remote = Ok)

\* C8: when two overlapping calls have both exchanged and both saved, they
\* hold different records and the file holds exactly one of them: one of the
\* two returns a record that differs from the record on disk.
C8_RaceLoserDiffersFromDisk ==
    \A p, q \in Procs :
        LET f == frame[p]
            g == frame[q] IN
        (p # q /\ f.pc = "ret" /\ g.pc = "ret" /\ Saved(f) /\ Saved(g))
            => /\ f.tok # g.tok
               /\ file.state = "ok"
               /\ NpLoad(file) = f.tok \/ NpLoad(file) = g.tok

\* Both calls saw the same absent or expired file, both exchanged and saved,
\* and the record process 1 returns is not the one on disk.
C8_Witness ==
    LET f == frame[1]
        g == frame[2] IN
    /\ f.pc = "ret" /\ g.pc = "ret" /\ Saved(f) /\ Saved(g)
    /\ f.loadErr = g.loadErr /\ f.loaded = g.loaded
    /\ file.state = "ok" /\ NpLoad(file) # f.tok

\* C9: the file changes only in a save of refresh_globus_token, made because
\* the file was absent at load time or because the record in hand had
\* expired, and a save that completes leaves exactly the new record; a call
\* that found a non-expired record leaves the file as it was.
C9_WritesOnlyWhenMissingOrExpired ==
    /\ [][ file' # file =>
             \E p \in Procs :
                 LET f == frame[p] IN
                 /\ f.pc \in {"save1", "save2"}
                 /\ frame'[p] # f
                 /\ f.pc = "save1" => f.loadErr = FileNotFoundError
                 /\ f.pc = "save2" => (f.tcheck >= 0 /\ f.life < 0)
                 /\ file' = NpSave(f.tok) \/ frame'[p].pc = "raise" ]_vars
    /\ [](\A p \in Procs :
             LET f == frame[p] IN
             (f.pc = "ret" /\ Loaded(f) /\ f.loaded.exp > f.tcheck)
                 => (file = NpSave(f.loaded) /\ f.events = <<>>))

C9_Witness ==
    \E p \in Procs :
        LET f == frame[p] IN
        /\ f.pc = "ret" /\ Loaded(f) /\ f.loaded.exp > f.tcheck
        /\ f.calls = 2
        /\ file = NpSave(f.loaded) /\ file.id > 0

\* C10: when a call that runs alone returns, the record in the file is the
\* record returned, on every path.
C10_DiskEqualsReturned ==
    \A p \in Procs :
        frame[p].pc = "ret"
            => (file.state = "ok" /\ NpLoad(file) = frame[p].tok)

\* The file was absent and the first record exchanged was already expired.
C10_Witness ==
    \E p \in Procs :
        LET f == frame[p] IN
        /\ f.pc = "ret" /\ f.loadErr = FileNotFoundError
        /\ f.events = <<"prompt", "exchange", "save",
                        "prompt", "exchange", "save">>
====
